---- MODULE Spec2Model ----
(***************************************************************************)
(* Serial-commanded laser / focus-stepper controller (borud/laser).        *)
(*                                                                         *)
(* The repository holds two builds of the same sketch:                     *)
(*   src/laser_controller/laser_controller.ino  (arm / duty / fire)        *)
(*   src/unnamed/part_000                       (laser commands stubbed)   *)
(* The variable `variant` says which build is running.  Definitions that   *)
(* model part_000 carry the suffix _0; the rest keep the sketch's names.   *)
(*                                                                         *)
(* The sketch is a single loop():  read_serial(); then the stepper poll.   *)
(* One TLA+ step is one call of read_serial() (with the command it         *)
(* dispatches), the end of the blocking delay() inside laser_fire(), or    *)
(* one stepper poll.  The environment puts bytes on the serial line.       *)
(***************************************************************************)
EXTENDS Integers, Sequences, FiniteSets, TLC

\* ------------------------------------------------------------------------
\* Program constants (#define lines of the sketch)
\* ------------------------------------------------------------------------
SERIAL_BUFFER_SIZE == 80
MAX_FOCUS_ROTATION == 1440
\* width of the sketch's `int`: 16 bits on the AVR boards the sketch is written
\* for (atoi() returns it, step_focus(int n) takes it).  With a wider int the
\* same arithmetic holds with INT_MIN further out.
INT_BITS == 16
\* width of `byte`: laser_set_duty_cycle(byte n), analogWrite value
BYTE_BITS == 8

INT_MIN == -(2 ^ (INT_BITS - 1))

\* ------------------------------------------------------------------------
\* Bounds of the model
\* ------------------------------------------------------------------------
\* longest terminator-less run of filler bytes the environment sends
MaxLineLen == 161
\* complete lines that may wait unread in the serial receive queue
MaxQueued == 2
\* focus-rotate lines the environment sends in one run (bounds stepper_pos)
MaxMoves == 2
\* quanta (stepper.run() calls that step) a rotation needs at most
MaxQuanta == 2

\* ------------------------------------------------------------------------
\* Bytes and C strings
\* ------------------------------------------------------------------------
NL == "\n"
NUL == "NUL"
Digits == <<"0", "1", "2", "3", "4", "5", "6", "7", "8", "9">>

IsDigit(c) == \E i \in 1..10 : Digits[i] = c
DigitVal(c) == (CHOOSE i \in 1..10 : Digits[i] = c) - 1

\* two's-complement wrap of a mathematical integer into the sketch's int
ToInt(x) == ((x - INT_MIN) % (2 ^ INT_BITS)) + INT_MIN
\* conversion to byte (unsigned, BYTE_BITS wide)
ToByte(x) == x % (2 ^ BYTE_BITS)

\* the C string that starts at buffer[i]: the bytes up to the first NUL
RECURSIVE CStr(_, _)
CStr(buf, i) ==
    IF i >= SERIAL_BUFFER_SIZE \/ buf[i] = NUL THEN <<>>
    ELSE <<buf[i]>> \o CStr(buf, i + 1)

\* atoi(s + i): optional sign, then decimal digits up to the first non-digit;
\* the value is accumulated in an int and wraps at INT_BITS.
RECURSIVE atoi_digits(_, _, _)
atoi_digits(buf, i, acc) ==
    IF i < SERIAL_BUFFER_SIZE /\ IsDigit(buf[i])
    THEN atoi_digits(buf, i + 1, ToInt(acc * 10 + DigitVal(buf[i])))
    ELSE acc

atoi(buf, i) ==
    IF buf[i] = "-" THEN ToInt(0 - atoi_digits(buf, i + 1, 0))
    ELSE IF buf[i] = "+" THEN atoi_digits(buf, i + 1, 0)
    ELSE atoi_digits(buf, i, 0)

\* Arduino's  #define abs(x) ((x)>0?(x):-(x))  on an int.  -(INT_MIN) overflows:
\* undefined behaviour.  `ub` picks the outcome: TRUE = two's-complement wrap
\* (the result is INT_MIN), FALSE = the mathematical value.
abs(n, ub) ==
    IF n > 0 THEN n
    ELSE IF n = INT_MIN THEN (IF ub THEN INT_MIN ELSE 0 - INT_MIN)
    ELSE 0 - n

\* ------------------------------------------------------------------------
\* Status lines written to Serial
\* ------------------------------------------------------------------------
St(code, msg, args) == [code |-> code, msg |-> msg, args |-> args]

Serial_println(s, st) == [s EXCEPT !.out = Append(@, st)]

Banner == St(100, "Laser Controller,  v0.1.0, <borud@borud.org>", <<>>)

\* ------------------------------------------------------------------------
\* State
\* ------------------------------------------------------------------------
VARIABLES
    variant,          \* which build runs: "laser_controller" or "part_000"
    pc,               \* where loop() stands: "read", "hold" (delay() in laser_fire), "poll"
    buffer,           \* static char buffer[SERIAL_BUFFER_SIZE], indexed 0..79
    buffer_offset,    \* static byte buffer_offset
    overflow_mode,    \* static boolean overflow_mode
    stepper_run,      \* boolean stepper_run
    stepper_pos,      \* long stepper_pos
    laser_duty_cycle, \* byte laser_duty_cycle (int in part_000)
    laser_armed,      \* boolean laser_armed (laser_controller.ino only)
    pin_arm,          \* level of PIN_LASER_ARM (PIN_LASER_POWER in part_000): 0 LOW, 1 HIGH
    pin_pwm,          \* value last written to PIN_LASER_PWM
    delay_ms,         \* argument of the delay() in progress
    stepper,          \* the CustomStepper object: [direction, left, done]
    serial,           \* bytes received and not yet read (Serial.available / Serial.read)
    out,              \* status lines printed by the step just taken
    tx,               \* environment: bytes of the line it is sending, sent so far
    moves,            \* environment: focus-rotate lines sent so far
    line,             \* history: bytes read_serial has read since the last terminator
    line_start,       \* history: buffer_offset when the current line's first byte was read
    line_ovf,         \* history: 510 OVERFLOW lines printed since the current line began
    line_out,         \* history: status lines read_serial itself printed since then
    after_recovery,   \* history: the terminator before this line ended overflow mode
    ended,            \* history: the line whose terminator was read last
    polled,           \* history: stepper polls since the last dispatch
    last,             \* history: the command dispatched last
    scen,             \* history: how far the last commands spell arm, set duty cycle, fire
    ev                \* history: what the step just taken did

vars == <<variant, pc, buffer, buffer_offset, overflow_mode, stepper_run, stepper_pos,
          laser_duty_cycle, laser_armed, pin_arm, pin_pwm, delay_ms, stepper, serial,
          out, tx, moves, line, line_start, line_ovf, line_out, after_recovery,
          ended, polled, last, scen, ev>>

LOW == 0
HIGH == 1

\* The program state as one record, so that the sketch's functions are
\* operators from state to state.  `ub` is the outcome the build gives to
\* undefined behaviour in this step; `disp` lists the commands handed to
\* parse_command in this step, each with the state it was dispatched in;
\* `loop_count` and `ret` are read_serial's local counter and its return;
\* `oob` collects the indices outside the buffer that this step wrote at and
\* `bound` says that loop_count reached its bound in this step.
State(ub) ==
    [variant |-> variant, pc |-> pc, buffer |-> buffer, buffer_offset |-> buffer_offset,
     overflow_mode |-> overflow_mode, stepper_run |-> stepper_run,
     stepper_pos |-> stepper_pos, laser_duty_cycle |-> laser_duty_cycle,
     laser_armed |-> laser_armed, pin_arm |-> pin_arm, pin_pwm |-> pin_pwm,
     delay_ms |-> delay_ms, stepper |-> stepper, serial |-> serial, out |-> <<>>,
     line |-> line, line_start |-> line_start, line_ovf |-> line_ovf,
     line_out |-> line_out, after_recovery |-> after_recovery, ended |-> ended,
     polled |-> polled, last |-> last, scen |-> scen, ub |-> ub, disp |-> <<>>,
     loop_count |-> 0, ret |-> FALSE, oob |-> {}, bound |-> FALSE]

\* the device part of a state: what commands act on
Device(s) ==
    [laser_armed |-> s.laser_armed, laser_duty_cycle |-> s.laser_duty_cycle,
     pin_arm |-> s.pin_arm, pin_pwm |-> s.pin_pwm, stepper_pos |-> s.stepper_pos,
     stepper_run |-> s.stepper_run, stepper |-> s.stepper]

\* ------------------------------------------------------------------------
\* The motion primitive (CustomStepper library, not part of the sketch).
\* A rotation is a direction and a number of quanta left; a request is in
\* flight from rotateDegrees() until run() reports it done or the direction
\* is set to STOP.
\* ------------------------------------------------------------------------
Quanta(degrees) ==
    IF degrees <= 0 THEN 0
    ELSE IF degrees < MaxQuanta THEN degrees ELSE MaxQuanta

CustomStepper_isDone(s) == s.stepper.done

CustomStepper_setDirection(s, d) ==
    [s EXCEPT !.stepper.direction = d,
              !.stepper.done = IF d = "STOP" THEN TRUE ELSE @]

CustomStepper_rotateDegrees(s, degrees) ==
    [s EXCEPT !.stepper.left = Quanta(degrees), !.stepper.done = FALSE]

CustomStepper_run(s) ==
    LET left == IF s.stepper.left > 0 /\ s.stepper.direction # "STOP"
                THEN s.stepper.left - 1 ELSE s.stepper.left
    IN  [s EXCEPT !.stepper.left = left, !.stepper.done = (left = 0)]

\* ------------------------------------------------------------------------
\* Device operations of laser_controller.ino
\* ------------------------------------------------------------------------
digitalWrite_ARM(s, level) == [s EXCEPT !.pin_arm = level]

analogWrite_PWM(s, value) == [s EXCEPT !.pin_pwm = value]

\* step_focus that sets stepper_run before it checks the bound
step_focus_m(s, n) ==
    IF abs(n, s.ub) > MAX_FOCUS_ROTATION
    THEN Serial_println([s EXCEPT !.stepper_run = TRUE],
                        St(521, "MAXIMUM FOCUS ROTATION IS", <<MAX_FOCUS_ROTATION>>))
    ELSE LET s1 == IF n > 0
                   THEN CustomStepper_rotateDegrees(CustomStepper_setDirection(s, "CCW"), n)
                   ELSE CustomStepper_rotateDegrees(CustomStepper_setDirection(s, "CW"),
                                                    IF n = INT_MIN /\ s.ub THEN n ELSE 0 - n)
             s2 == Serial_println(s1, St(204, "FOCUS", <<n>>))
         IN  [s2 EXCEPT !.stepper_pos = @ + n, !.stepper_run = TRUE]

step_focus(s, n) ==
    IF abs(n, s.ub) > MAX_FOCUS_ROTATION
    THEN Serial_println(s, St(521, "MAXIMUM FOCUS ROTATION IS", <<MAX_FOCUS_ROTATION>>))
    ELSE LET s1 == IF n > 0
                   THEN CustomStepper_rotateDegrees(CustomStepper_setDirection(s, "CCW"), n)
                   ELSE CustomStepper_rotateDegrees(CustomStepper_setDirection(s, "CW"),
                                                    IF n = INT_MIN /\ s.ub THEN n ELSE 0 - n)
             s2 == Serial_println(s1, St(204, "FOCUS", <<n>>))
         IN  [s2 EXCEPT !.stepper_pos = @ + n, !.stepper_run = TRUE]

\* emergency_stop that leaves laser_armed as it is
emergency_stop_m(s) ==
    LET s1 == analogWrite_PWM(digitalWrite_ARM(s, LOW), 0)
        s2 == [s1 EXCEPT !.laser_duty_cycle = 0]
        s3 == Serial_println(s2, St(520, "LASER OFF (unarmed, duty_cycle = 0", <<>>))
    IN  IF ~CustomStepper_isDone(s3)
        THEN Serial_println(
                 [CustomStepper_setDirection(s3, "STOP") EXCEPT !.stepper_run = FALSE],
                 St(521, "STEPPER STOPPED, POSITION LOST", <<>>))
        ELSE s3

\* emergency_stop that toggles the arm pin instead of writing it LOW
emergency_stop_t(s) ==
    LET s1 == analogWrite_PWM(digitalWrite_ARM(s, IF s.pin_arm = LOW THEN HIGH ELSE LOW), 0)
        s2 == [s1 EXCEPT !.laser_duty_cycle = 0, !.laser_armed = FALSE]
        s3 == Serial_println(s2, St(520, "LASER OFF (unarmed, duty_cycle = 0", <<>>))
    IN  IF ~CustomStepper_isDone(s3)
        THEN Serial_println(
                 [CustomStepper_setDirection(s3, "STOP") EXCEPT !.stepper_run = FALSE],
                 St(521, "STEPPER STOPPED, POSITION LOST", <<>>))
        ELSE s3

emergency_stop(s) ==
    LET s1 == analogWrite_PWM(digitalWrite_ARM(s, LOW), 0)
        s2 == [s1 EXCEPT !.laser_duty_cycle = 0, !.laser_armed = FALSE]
        s3 == Serial_println(s2, St(520, "LASER OFF (unarmed, duty_cycle = 0", <<>>))
    IN  IF ~CustomStepper_isDone(s3)
        THEN Serial_println(
                 [CustomStepper_setDirection(s3, "STOP") EXCEPT !.stepper_run = FALSE],
                 St(521, "STEPPER STOPPED, POSITION LOST", <<>>))
        ELSE s3

\* step_zero_pos that zeroes before it prints
step_zero_pos_m(s) ==
    LET s1 == [s EXCEPT !.stepper_pos = 0]
    IN  Serial_println(s1, St(209, "FOCUS ZEROED, old pos =", <<s1.stepper_pos>>))

step_zero_pos(s) ==
    [Serial_println(s, St(209, "FOCUS ZEROED, old pos =", <<s.stepper_pos>>))
        EXCEPT !.stepper_pos = 0]

\* laser_set_duty_cycle that acknowledges the value without storing it
laser_set_duty_cycle_m(s, n) ==
    Serial_println(s, St(206, "DUTY CYCLE", <<ToByte(n)>>))

laser_set_duty_cycle(s, n) ==
    LET s1 == [s EXCEPT !.laser_duty_cycle = ToByte(n)]
    IN  Serial_println(s1, St(206, "DUTY CYCLE", <<s1.laser_duty_cycle>>))

\* laser_fire without the armed check
laser_fire_m(s, n) ==
    [analogWrite_PWM(s, s.laser_duty_cycle) EXCEPT !.delay_ms = n, !.pc = "hold"]

\* laser_fire up to and including the call of delay(n): the hold begins
laser_fire(s, n) ==
    IF ~s.laser_armed
    THEN Serial_println(s, St(530, "LASER UNARMED", <<>>))
    ELSE [analogWrite_PWM(s, s.laser_duty_cycle) EXCEPT !.delay_ms = n, !.pc = "hold"]

\* laser_fire after delay(n) has returned
laser_fire_done(s) ==
    LET s1 == analogWrite_PWM(s, 0)
    IN  [Serial_println(s1, St(205, "LASER FIRED", <<s.delay_ms, s1.laser_duty_cycle>>))
            EXCEPT !.delay_ms = 0, !.pc = "poll"]

laser_arm(s) ==
    Serial_println([digitalWrite_ARM(s, HIGH) EXCEPT !.laser_armed = TRUE],
                   St(207, "LASER ARMED", <<>>))

laser_unarm(s) ==
    Serial_println([digitalWrite_ARM(s, LOW) EXCEPT !.laser_armed = FALSE],
                   St(208, "LASER UNARMED", <<>>))

\* one println of a seven-line text: six 202 lines and 203 OK
print_help(s) ==
    [s EXCEPT !.out = @ \o <<St(202, "Commands:", <<>>),
                             St(202, "e", <<>>), St(202, "d", <<>>), St(202, "f", <<>>),
                             St(202, "p", <<>>), St(202, "z", <<>>), St(203, "OK", <<>>)>>]

Opcodes == {"e", "a", "u", "d", "f", "p", "z", "h"}

\* a default branch that prints nothing
unknown_command_m(s) == s

\* default:
unknown_command(s) == Serial_println(s, St(501, "UNKNOWN COMMAND", <<>>))

parse_command(s) ==
    LET c == s.buffer[0]
    IN  CASE c = "e" -> emergency_stop(s)
          [] c = "a" -> laser_arm(s)
          [] c = "u" -> laser_unarm(s)
          [] c = "d" -> laser_set_duty_cycle(s, atoi(s.buffer, 1))
          [] c = "f" -> laser_fire(s, atoi(s.buffer, 1))
          [] c = "p" -> step_focus(s, atoi(s.buffer, 1))
          [] c = "z" -> step_zero_pos(s)
          [] c = "h" -> print_help(s)
          [] OTHER   -> unknown_command(s)

\* ------------------------------------------------------------------------
\* Device operations of part_000 (step_focus and print_help are the same text)
\* ------------------------------------------------------------------------
emergency_stop_0(s) ==
    IF ~CustomStepper_isDone(s)
    THEN Serial_println(
             [CustomStepper_setDirection(s, "STOP") EXCEPT !.stepper_run = FALSE],
             St(520, "STEPPER STOPPED, POSITION LOST", <<>>))
    ELSE s

step_zero_pos_0(s) ==
    LET s1 == [s EXCEPT !.stepper_pos = 0]
    IN  Serial_println(s1, St(201, "FOCUS pos =", <<s1.stepper_pos>>))

Opcodes_0 == {"e", "d", "f", "p", "z", "h"}

parse_command_0(s) ==
    LET c == s.buffer[0]
    IN  CASE c = "e" -> emergency_stop_0(s)
          [] c = "d" -> s
          [] c = "f" -> s
          [] c = "p" -> step_focus(s, atoi(s.buffer, 1))
          [] c = "z" -> step_zero_pos_0(s)
          [] c = "h" -> print_help(s)
          [] OTHER   -> unknown_command(s)

\* ------------------------------------------------------------------------
\* History bookkeeping (observes read_serial, changes nothing it reads)
\* ------------------------------------------------------------------------
NoLine ==
    [bytes |-> <<>>, start |-> 0, ovf |-> 0, out |-> 0, after_recovery |-> FALSE,
     recovered |-> FALSE, dispatched |-> FALSE, n |-> 0]

\* a byte c has been read while the cursor stood at s.buffer_offset
note_byte(s, c) ==
    [s EXCEPT !.line_start = IF s.line = <<>> THEN s.buffer_offset ELSE @,
              !.line = IF c = NL THEN @ ELSE Append(@, c)]

\* read_serial printed a status line of its own
note_status(s) ==
    [s EXCEPT !.line_ovf = @ + 1, !.line_out = @ + 1]

\* the terminator of the current line has been read; recovered: it ended
\* overflow mode, otherwise the line was dispatched
note_line_end(s, recovered) ==
    [s EXCEPT !.ended = [bytes |-> s.line, start |-> s.line_start, ovf |-> s.line_ovf,
                         out |-> s.line_out, after_recovery |-> s.after_recovery,
                         recovered |-> recovered, dispatched |-> ~recovered,
                         n |-> IF s.ended.n < 2 THEN s.ended.n + 1 ELSE 2],
              !.line = <<>>, !.line_ovf = 0, !.line_out = 0,
              !.after_recovery = recovered]

NoCommand ==
    [n |-> 0, cmd |-> <<>>, arg |-> 0, pos |-> 0, out |-> <<>>, completed |-> FALSE]

\* the commands dispatched last, as far as they are, in this order and with
\* nothing between them, arm, set duty cycle and fire: for each its argument
\* and what it printed
note_scen(s) ==
    LET op == s.buffer[0]
        rec == [op |-> op, arg |-> atoi(s.buffer, 1), out |-> <<>>]
    IN  IF op = "a" THEN <<rec>>
        ELSE IF op = "d" /\ Len(s.scen) = 1 THEN Append(s.scen, rec)
        ELSE IF op = "f" /\ Len(s.scen) = 2 THEN Append(s.scen, rec)
        ELSE <<>>

\* s.buffer is about to be handed to parse_command: `disp` keeps the command,
\* the device state it meets, whether overflow mode is on, the polls since the
\* command before it and that command; `last` becomes this command
note_dispatch(s) ==
    [s EXCEPT !.disp = Append(@, [cmd |-> CStr(s.buffer, 0), pre |-> Device(s),
                                  ovf |-> s.overflow_mode,
                                  polled |-> s.polled, prev |-> s.last]),
              !.scen = note_scen(s),
              !.last = [n |-> 1, cmd |-> CStr(s.buffer, 0), arg |-> atoi(s.buffer, 1),
                        pos |-> s.stepper_pos, out |-> <<>>, completed |-> FALSE],
              !.polled = 0]

\* after a step: what `last` printed, and whether its rotation has been
\* reported complete
note_last(r, kind) ==
    IF kind = "read" /\ Len(r.disp) > 0 THEN [r.last EXCEPT !.out = r.out]
    ELSE IF kind = "fired" THEN [r.last EXCEPT !.out = @ \o r.out]
    ELSE IF kind = "poll" /\ Len(r.out) > 0 THEN [r.last EXCEPT !.completed = TRUE]
    ELSE r.last

\* after a step: what the last command of `scen` printed, at its dispatch and
\* after its hold
note_scen_out(r, kind) ==
    IF r.scen # <<>> /\ ((kind = "read" /\ Len(r.disp) > 0) \/ kind = "fired")
    THEN [r.scen EXCEPT ![Len(r.scen)].out = @ \o r.out]
    ELSE r.scen

\* a write at buffer[i]: `oob` keeps i if it lies outside the buffer
note_store(s, i) ==
    [s EXCEPT !.oob = IF i \in 0..(SERIAL_BUFFER_SIZE - 1) THEN @ ELSE @ \cup {i}]

\* ------------------------------------------------------------------------
\* read_serial
\* ------------------------------------------------------------------------
Serial_available(s) == Len(s.serial) > 0

\* buffer[buffer_offset] = Serial.read();
Serial_read(s) ==
    LET c == Head(s.serial)
    IN  [note_store(note_byte(s, c), s.buffer_offset)
            EXCEPT !.buffer[s.buffer_offset] = c, !.serial = Tail(@)]

\* the byte just stored
last_byte(s) == s.buffer[s.buffer_offset]

\* overflow mode, newline seen:  overflow_mode = false; return;
overflow_exit(s) ==
    [note_line_end(s, TRUE) EXCEPT !.overflow_mode = FALSE]

\* a bound that also leaves overflow mode
overflow_bound_exit(s) ==
    Serial_println([note_status(s) EXCEPT !.bound = TRUE, !.overflow_mode = FALSE],
                   St(510, "OVERFLOW", <<>>))

\* overflow mode, loop_count == SERIAL_BUFFER_SIZE:  println; return;
overflow_bound(s) ==
    Serial_println([note_status(s) EXCEPT !.bound = TRUE], St(510, "OVERFLOW", <<>>))

\* parse_command of the build that runs
dispatch(s) ==
    IF s.variant = "part_000" THEN parse_command_0(s) ELSE parse_command(s)

\* newline outside overflow mode: terminate in place, reset the cursor, dispatch
line_complete(s) ==
    LET s1 == [note_store(note_line_end(s, FALSE), s.buffer_offset)
                  EXCEPT !.buffer[s.buffer_offset] = NUL, !.buffer_offset = 0]
    IN  dispatch(note_dispatch(s1))

\* a full-buffer test that is one byte early
buffer_full_m(s) == s.buffer_offset = SERIAL_BUFFER_SIZE - 1

\* a full-buffer test that is one byte late
buffer_full_late(s) == s.buffer_offset > SERIAL_BUFFER_SIZE

\* the buffer is full:  SERIAL_BUFFER_SIZE == buffer_offset
buffer_full(s) == s.buffer_offset = SERIAL_BUFFER_SIZE

\* buffer full: reset the cursor, enter overflow mode, println
overflow_enter(s) ==
    Serial_println([note_status(s) EXCEPT !.buffer_offset = 0, !.overflow_mode = TRUE],
                   St(510, "OVERFLOW", <<>>))

\* no return after parse_command: the loop goes on with the next byte
return_after_dispatch_m(s) == s

\* the `return` that follows parse_command: the rest of the input waits for
\* the next call
return_after_dispatch(s) == [s EXCEPT !.ret = TRUE]

\* one evaluation of the while condition and, if a byte is available, of the
\* loop body; `ret` says that read_serial has returned
read_serial_step(s) ==
    IF ~Serial_available(s) THEN [s EXCEPT !.ret = TRUE]
    ELSE LET s1 == Serial_read(s)
             s2 == IF s1.overflow_mode THEN [s1 EXCEPT !.loop_count = @ + 1] ELSE s1
         IN  IF s2.overflow_mode /\ last_byte(s2) = NL
                 THEN [overflow_exit(s2) EXCEPT !.ret = TRUE]
             ELSE IF s2.overflow_mode /\ s2.loop_count = SERIAL_BUFFER_SIZE
                 THEN [overflow_bound(s2) EXCEPT !.ret = TRUE]
             ELSE IF last_byte(s2) = NL
                 THEN return_after_dispatch(line_complete(s2))
             ELSE LET s3 == [s2 EXCEPT !.buffer_offset = @ + 1]
                  IN  IF buffer_full(s3) THEN [overflow_enter(s3) EXCEPT !.ret = TRUE]
                      ELSE s3

\* up to n turns of the while loop, stopping at the return
RECURSIVE read_serial_loop(_, _)
read_serial_loop(s, n) ==
    IF s.ret THEN s
    ELSE IF n <= 1 THEN read_serial_step(s)
    ELSE read_serial_loop(read_serial_loop(s, n \div 2), n - (n \div 2))

\* int loop_count = 0; while (Serial.available()) { ... }: every turn reads a
\* byte, so Len(serial) + 1 turns reach the return
read_serial(s) ==
    read_serial_loop([s EXCEPT !.loop_count = 0, !.ret = FALSE], Len(s.serial) + 1)

\* a poll that reports the completion and leaves stepper_run set
stepper_poll_m(s) ==
    IF ~CustomStepper_isDone(s)
    THEN LET s1 == CustomStepper_run(s)
         IN  IF CustomStepper_isDone(s1)
             THEN Serial_println(s1, St(201, "FOCUS DONE, pos =", <<s1.stepper_pos>>))
             ELSE s1
    ELSE s

\* the rest of loop(): the stepper poll
stepper_poll(s) ==
    IF ~CustomStepper_isDone(s)
    THEN LET s1 == CustomStepper_run(s)
         IN  IF CustomStepper_isDone(s1)
             THEN Serial_println([s1 EXCEPT !.stepper_run = FALSE],
                                 St(201, "FOCUS DONE, pos =", <<s1.stepper_pos>>))
             ELSE s1
    ELSE s

\* ------------------------------------------------------------------------
\* Steps
\* ------------------------------------------------------------------------
Commit(r, kind) ==
    /\ pc' = r.pc
    /\ buffer' = r.buffer
    /\ buffer_offset' = r.buffer_offset
    /\ overflow_mode' = r.overflow_mode
    /\ stepper_run' = r.stepper_run
    /\ stepper_pos' = r.stepper_pos
    /\ laser_duty_cycle' = r.laser_duty_cycle
    /\ laser_armed' = r.laser_armed
    /\ pin_arm' = r.pin_arm
    /\ pin_pwm' = r.pin_pwm
    /\ delay_ms' = r.delay_ms
    /\ stepper' = r.stepper
    /\ serial' = r.serial
    /\ out' = r.out
    /\ line' = r.line
    /\ line_start' = r.line_start
    /\ line_ovf' = r.line_ovf
    /\ line_out' = r.line_out
    /\ after_recovery' = r.after_recovery
    /\ ended' = r.ended
    /\ polled' = r.polled
    /\ last' = note_last(r, kind)
    /\ scen' = note_scen_out(r, kind)
    /\ ev' = [kind |-> kind, disp |-> r.disp, oob |-> r.oob, bound |-> r.bound]
    /\ UNCHANGED <<variant, tx, moves>>

\* loop(): the call of read_serial(), up to its return or to the delay()
\* inside laser_fire
LoopRead ==
    /\ pc = "read"
    /\ \E ub \in BOOLEAN :
          \E r \in {read_serial(State(ub))} :
             Commit([r EXCEPT !.pc = IF r.pc = "hold" THEN "hold" ELSE "poll"], "read")

\* delay() returns: laser_fire finishes, read_serial returns
FireDone ==
    /\ pc = "hold"
    /\ \E r \in {laser_fire_done(State(FALSE))} : Commit(r, "fired")

\* loop(): the stepper poll; the iteration ends
LoopPoll ==
    /\ pc = "poll"
    /\ \E r \in {stepper_poll(State(FALSE))} :
          Commit([r EXCEPT !.pc = "read", !.polled = 1], "poll")

Init ==
    /\ variant \in {"laser_controller", "part_000"}
    /\ pc = "read"
    /\ buffer = [i \in 0..(SERIAL_BUFFER_SIZE - 1) |-> NUL]
    /\ buffer_offset = 0
    /\ overflow_mode = FALSE
    /\ stepper_run = FALSE
    /\ stepper_pos = 0
    /\ laser_duty_cycle = 0
    /\ laser_armed = FALSE
    /\ pin_arm = LOW
    /\ pin_pwm = 0
    /\ delay_ms = 0
    /\ stepper = [direction |-> "CW", left |-> 0, done |-> TRUE]
    /\ serial = <<>>
    /\ out = <<Banner>>
    /\ tx = <<>>
    /\ moves = 0
    /\ line = <<>>
    /\ line_start = 0
    /\ line_ovf = 0
    /\ line_out = 0
    /\ after_recovery = FALSE
    /\ ended = NoLine
    /\ polled = 0
    /\ last = NoCommand
    /\ scen = <<>>
    /\ ev = [kind |-> "setup", disp |-> <<>>, oob |-> {}, bound |-> FALSE]

\* ------------------------------------------------------------------------
\* Environment
\* ------------------------------------------------------------------------
Queued(q) == Cardinality({i \in 1..Len(q) : q[i] = NL})

\* command lines the operator sends (without their terminator)
CommandLines ==
    { <<"e">>, <<"a">>, <<"u">>, <<"z">>, <<"h">>, <<>>, <<"x">>,
      <<"d", "1", "0", "0">>, <<"f", "5", "0">>, <<"p", "2">> }

\* fire lines: positive, zero, negative and unparsable durations
FireLines ==
    { <<"e">>, <<"a">>, <<"u">>, <<"d", "1", "0", "0">>, <<"d", "3", "0", "0">>,
      <<"f", "5", "0">>, <<"f", "0">>, <<"f", "-", "5">>, <<"f", "x">>, <<"p", "2">> }

\* duty cycle lines: inside, on the edge of and beyond the documented range,
\* negative and unparsable
DutyLines ==
    { <<"a">>, <<"e">>, <<"f", "5", "0">>, <<"d", "1", "0", "0">>,
      <<"d", "2", "5", "4">>, <<"d", "2", "5", "5">>, <<"d", "3", "0", "0">>,
      <<"d", "-", "1">>, <<"d", "x">> }

\* focus lines: inside, on and beyond the bound, and the most negative int
FocusLines ==
    { <<"e">>, <<"z">>, <<"p", "1">>, <<"p", "-", "9", "0">>, <<"p">>,
      <<"p", "1", "4", "4", "0">>, <<"p", "-", "1", "4", "4", "1">>,
      <<"p", "2", "0", "0", "0">>, <<"p", "-", "3", "2", "7", "6", "8">> }

\* lines sent in bursts: several may wait in the receive queue
BurstLines == { <<"a">>, <<"z">>, <<"f", "5", "0">>, <<"p", "2">> }

\* short lines sent around an over-long one
FramingLines == { <<"a">>, <<>>, <<"e">> }

IsMove(l) == Len(l) > 0 /\ l[1] = "p"

IsFill(t) == \A i \in 1..Len(t) : t[i] = "x"

IsPrefix(a, b) == Len(a) <= Len(b) /\ \A i \in 1..Len(a) : a[i] = b[i]

EnvUnchanged ==
    UNCHANGED <<variant, pc, buffer, buffer_offset, overflow_mode, stepper_run,
                stepper_pos, laser_duty_cycle, laser_armed, pin_arm, pin_pwm,
                delay_ms, stepper, out, line, line_start, line_ovf, line_out,
                after_recovery, ended, polled, last, scen>>

\* a whole line of L arrives while the loop is between two polls, if fewer
\* than `depth` lines wait unread.  The commands are dispatched one per
\* iteration in the order sent whatever the depth, so the device sees the
\* same command sequences at depth 1 as at any other.
Send(L, depth) ==
    /\ pc \in {"read", "hold"}
    /\ Queued(serial) < depth
    /\ \E l \in L :
          /\ IsMove(l) => moves < MaxMoves
          /\ serial' = serial \o l \o <<NL>>
          /\ moves' = IF IsMove(l) THEN moves + 1 ELSE moves
    /\ ev' = [kind |-> "send", disp |-> <<>>, oob |-> {}, bound |-> FALSE]
    /\ tx' = tx
    /\ EnvUnchanged

SendLine == Send(CommandLines, 1)

SendBurst == Send(BurstLines, MaxQueued)

SendFire == Send(FireLines, 1)

SendFocus == Send(FocusLines, 1)

SendDuty == Send(DutyLines, 1)

\* one byte arrives.  A line begins only when the bytes sent before have been
\* read, and the run of filler bytes is the first line of the session; the
\* bytes of a line arrive in any split across the calls of read_serial.
SendByte ==
    /\ pc \in {"read", "hold"}
    /\ tx = <<>> => serial = <<>>
    /\ \E b \in {"a", "e", "x", NL} :
          /\ \/ \E l \in FramingLines : IsPrefix(Append(tx, b), l \o <<NL>>)
             \/ /\ b = "x"
                /\ IsFill(tx)
                /\ Len(tx) < MaxLineLen
                /\ tx = <<>> => ended.n = 0
             \/ b = NL /\ IsFill(tx) /\ Len(tx) >= 1
          /\ serial' = Append(serial, b)
          /\ tx' = IF b = NL THEN <<>> ELSE Append(tx, b)
    /\ ev' = [kind |-> "send", disp |-> <<>>, oob |-> {}, bound |-> FALSE]
    /\ moves' = moves
    /\ EnvUnchanged

Next == LoopRead \/ FireDone \/ LoopPoll \/ SendLine

Spec == Init /\ [][Next]_vars

NextBurst == LoopRead \/ FireDone \/ LoopPoll \/ SendBurst

SpecBurst == Init /\ [][NextBurst]_vars

NextFire == LoopRead \/ FireDone \/ LoopPoll \/ SendFire

SpecFire == Init /\ [][NextFire]_vars

NextFocus == LoopRead \/ LoopPoll \/ SendFocus

SpecFocus == Init /\ [][NextFocus]_vars

\* the step that leaves "read": LoopRead and no other (it is enabled whenever
\* pc = "read" and always moves on to the hold or to the poll)
ReadReturns == pc = "read" /\ pc' \in {"hold", "poll"}

\* loop() runs for ever: every iteration calls read_serial, which returns,
\* and then polls the stepper
SpecFocusLive ==
    Init /\ [][NextFocus]_vars /\ WF_pc(ReadReturns) /\ WF_vars(LoopPoll)

NextDuty == LoopRead \/ FireDone \/ LoopPoll \/ SendDuty

SpecDuty == Init /\ [][NextDuty]_vars

NextFraming == LoopRead \/ LoopPoll \/ SendByte

SpecFraming == Init /\ [][NextFraming]_vars

\* ------------------------------------------------------------------------
\* Properties
\* ------------------------------------------------------------------------
Abs(n) == IF n < 0 THEN 0 - n ELSE n

\* the step just taken is a read_serial call that dispatched exactly one command
Dispatched == ev.kind = "read" /\ Len(ev.disp) = 1

\* the command it dispatched, the opcode parse_command saw, the device before
Cmd == ev.disp[1].cmd
Op == IF Cmd = <<>> THEN NUL ELSE Cmd[1]
Pre == ev.disp[1].pre
Now == [laser_armed |-> laser_armed, laser_duty_cycle |-> laser_duty_cycle,
        pin_arm |-> pin_arm, pin_pwm |-> pin_pwm, stepper_pos |-> stepper_pos,
        stepper_run |-> stepper_run, stepper |-> stepper]

Recognized == IF variant = "part_000" THEN Opcodes_0 ELSE Opcodes

\* the duty cycles the help text documents: "d [0..254]"
DutyRange == 0..254

\* C1: when the terminator before a line ended overflow mode, that line is
\* dispatched with exactly its own bytes as the command (so parse_command
\* sees the line's first byte as the opcode).
C1_ResyncAfterOverflow ==
    (Dispatched /\ ended.dispatched /\ ended.after_recovery) => Cmd = ended.bytes

\* C2: a line of at least SERIAL_BUFFER_SIZE bytes, begun at an empty line
\* buffer, has had 510 OVERFLOW printed exactly once when its terminator is read.
C2_OverflowOnce ==
    (ended.n > 0 /\ ended.start = 0 /\ Len(ended.bytes) >= SERIAL_BUFFER_SIZE)
        => ended.ovf = 1

\* C3: the PWM output is non-zero only inside the hold of a fire that was
\* started armed; at every iteration boundary, and whenever laser_armed is
\* false, it is 0.
C3_LaserSafety ==
    /\ pin_pwm # 0 => (pc = "hold" /\ laser_armed)
    /\ pc = "read" => pin_pwm = 0
    /\ ~laser_armed => pin_pwm = 0

C3_Witness == pc = "hold" /\ laser_armed /\ pin_pwm # 0

\* C4: after a dispatched emergency stop the laser is unarmed (flag false, arm
\* pin LOW), duty cycle and PWM output are 0, and the stepper is idle
\* (stepper_run false, no rotation in flight).
C4_EmergencyStop ==
    (Dispatched /\ Op = "e")
        => /\ ~laser_armed /\ pin_arm = LOW
           /\ laser_duty_cycle = 0 /\ pin_pwm = 0
           /\ ~stepper_run /\ stepper.done

C4_Witness ==
    /\ Dispatched /\ Op = "e"
    /\ Pre.laser_armed /\ Pre.laser_duty_cycle # 0
    /\ Pre.stepper_run /\ ~Pre.stepper.done
    /\ ~laser_armed /\ ~stepper_run

\* C5: a fire command dispatched while the laser is unarmed prints exactly
\* 530 LASER UNARMED, starts no hold and changes no device state.
C5_FireUnarmed ==
    (Dispatched /\ Op = "f" /\ ~Pre.laser_armed)
        => /\ out = <<St(530, "LASER UNARMED", <<>>)>>
           /\ pc = "poll"
           /\ Now = Pre

\* C6: focus-rotate with argument n: for |n| <= MAX_FOCUS_ROTATION the tracked
\* position grows by n at once and 204 FOCUS n is printed; for larger |n| the
\* request is rejected with 521 and position, running flag and motion
\* primitive are unchanged.
C6_FocusRotate ==
    (Dispatched /\ Op = "p")
        => IF Abs(last.arg) <= MAX_FOCUS_ROTATION
           THEN /\ stepper_pos = Pre.stepper_pos + last.arg
                /\ out = <<St(204, "FOCUS", <<last.arg>>)>>
           ELSE /\ out = <<St(521, "MAXIMUM FOCUS ROTATION IS", <<MAX_FOCUS_ROTATION>>)>>
                /\ stepper_pos = Pre.stepper_pos
                /\ stepper_run = Pre.stepper_run
                /\ stepper = Pre.stepper

\* the step just taken dispatched zero-focus-position, it printed the
\* "old pos" line, and the command before it was a focus-rotate that was
\* accepted and whose motion has not been reported complete
ZeroRightAfterRotate ==
    /\ Dispatched /\ Op = "z"
    /\ Len(out) = 1 /\ out[1].code = 209
    /\ ev.disp[1].prev.n = 1
    /\ ev.disp[1].prev.cmd # <<>> /\ ev.disp[1].prev.cmd[1] = "p"
    /\ Len(ev.disp[1].prev.out) = 1 /\ ev.disp[1].prev.out[1].code = 204
    /\ ~ev.disp[1].prev.completed

\* C7 as stated: the "old pos" reported is the tracked position as it was
\* before the rotation request.
C7_OldPosIsPreRequest ==
    ZeroRightAfterRotate => out[1].args = <<ev.disp[1].prev.pos>>

\* C7 amended: the "old pos" reported is the position before the rotation
\* request plus the requested n (the request is accounted at once).
C7_OldPosIsPostRequest ==
    ZeroRightAfterRotate
        => out[1].args = <<ev.disp[1].prev.pos + ev.disp[1].prev.arg>>

C7_Witness ==
    /\ ZeroRightAfterRotate
    /\ ev.disp[1].prev.arg # 0
    /\ ev.disp[1].prev.pos # 0
    /\ stepper_pos = 0

\* C8: a dispatched line whose first character is no opcode of the build
\* (the empty line included) prints exactly 501 UNKNOWN COMMAND and changes
\* no device state.
C8_UnknownCommand ==
    (Dispatched /\ Op \notin Recognized)
        => /\ out = <<St(501, "UNKNOWN COMMAND", <<>>)>>
           /\ Now = Pre
           /\ pc = "poll"

C8_Witness ==
    /\ Dispatched /\ Cmd = <<>>
    /\ out = <<St(501, "UNKNOWN COMMAND", <<>>)>>
    /\ Pre.laser_armed /\ Pre.stepper_run

\* C9: a call of read_serial dispatches at most one command and is followed
\* by the stepper poll before the next call; so every dispatch but the first
\* has at least one poll between it and the dispatch before it.
C9_OneCommandPerIteration ==
    ev.kind = "read"
        => /\ Len(ev.disp) <= 1
           /\ pc \in {"poll", "hold"}
           /\ \A i \in 1..Len(ev.disp) :
                 ev.disp[i].prev.n = 1 => ev.disp[i].polled >= 1

C9_Witness ==
    /\ Dispatched
    /\ Queued(serial) >= 1
    /\ ev.disp[1].prev.n = 1
    /\ ev.disp[1].polled >= 1
    /\ stepper_run

\* C10: while the current line began at an empty line buffer and has fewer
\* than SERIAL_BUFFER_SIZE bytes, none of them a terminator, read_serial has
\* dispatched nothing and printed nothing since the line began.
C10_NoOutputBeforeTerminator ==
    (line # <<>> /\ line_start = 0 /\ Len(line) < SERIAL_BUFFER_SIZE)
        => /\ line_out = 0
           /\ ev.kind = "read" => (ev.disp = <<>> /\ out = <<>>)

C10_Witness ==
    /\ ev.kind = "read"
    /\ line_start = 0
    /\ Len(line) = SERIAL_BUFFER_SIZE - 1
    /\ serial = <<>>
    /\ out = <<>>

EStop(s) == IF s.variant = "part_000" THEN emergency_stop_0(s) ELSE emergency_stop(s)

\* one loop iteration that dispatches emergency stop: the command, then the poll
EStopIteration(s) == stepper_poll(EStop(s))

\* C12: from every state at an iteration boundary, two iterations that each
\* dispatch emergency stop leave the same device state (laser_armed, duty
\* cycle, arm and PWM outputs, stepper_pos, stepper_run, motion primitive) as
\* one; and in a run, an emergency stop dispatched right after an emergency
\* stop changes no device state.
C12_EmergencyStopIdempotent ==
    /\ pc = "read"
          => Device(EStopIteration(EStopIteration(State(FALSE))))
                 = Device(EStopIteration(State(FALSE)))
    /\ (Dispatched /\ Op = "e" /\ ev.disp[1].prev.n = 1
           /\ ev.disp[1].prev.cmd # <<>> /\ ev.disp[1].prev.cmd[1] = "e")
          => Now = Pre

\* the second of two emergency stops in a row, the first of which had
\* unarmed the laser and stopped a rotation
C12_Witness ==
    /\ Dispatched /\ Op = "e"
    /\ ev.disp[1].prev.n = 1 /\ ev.disp[1].prev.cmd = <<"e">>
    /\ Len(ev.disp[1].prev.out) = 2
    /\ Now = Pre
    /\ Device(EStop(State(FALSE))) = Now

\* C13: zero-focus-position sets the tracked position to 0 and prints one
\* status line that carries the position as it was just before the command,
\* on both builds.
C13_ZeroReportsOldPos ==
    (Dispatched /\ Op = "z")
        => /\ stepper_pos = 0
           /\ Len(out) = 1
           /\ out[1].args = <<Pre.stepper_pos>>

\* C14: the cursor is in 0..SERIAL_BUFFER_SIZE-1 whenever read_serial is
\* called, no call writes at an index outside the buffer (stores in and out
\* of overflow mode and the terminating NUL), and no line is dispatched while
\* overflow mode is on.
C14_CursorInsideBuffer ==
    /\ buffer_offset \in 0..(SERIAL_BUFFER_SIZE - 1)
    /\ ev.oob = {}
    /\ \A i \in 1..Len(ev.disp) : ~ev.disp[i].ovf

\* the last cell has been written, the buffer has overflowed and the cursor
\* has gone on writing in overflow mode
C14_Witness ==
    /\ ev.kind = "read"
    /\ overflow_mode
    /\ buffer[SERIAL_BUFFER_SIZE - 1] = "x"
    /\ buffer_offset > 0
    /\ Len(line) > SERIAL_BUFFER_SIZE

\* C15 as stated: when the counter of overflow mode reaches its bound in a
\* call of read_serial, overflow mode is left.
C15_BoundLeavesOverflow ==
    (ev.kind = "read" /\ ev.bound) => ~overflow_mode

\* C15 amended: when the counter reaches its bound the call prints
\* 510 OVERFLOW and returns with overflow mode still on; overflow mode is left
\* only by a call whose last byte read is a terminator.
C15_BoundReturnsOnly ==
    /\ [](ev.kind = "read" /\ ev.bound
             => (overflow_mode /\ out = <<St(510, "OVERFLOW", <<>>)>>))
    /\ [][(overflow_mode /\ ~overflow_mode')
             => /\ Len(serial') < Len(serial)
                /\ serial[Len(serial) - Len(serial')] = NL]_vars

C15_Witness ==
    /\ ev.kind = "read" /\ ev.bound
    /\ overflow_mode
    /\ Len(line) = 2 * SERIAL_BUFFER_SIZE

\* C16: the cursor is 0 at startup, right after every dispatch and right
\* after every terminator that ended overflow mode; and it stays 0 throughout
\* overflow mode (the bytes read there do not advance it).
C16_CursorZero ==
    /\ ev.kind = "setup" => buffer_offset = 0
    /\ Dispatched => buffer_offset = 0
    /\ (after_recovery /\ line = <<>>) => buffer_offset = 0
    /\ overflow_mode => buffer_offset = 0

\* C17: the stored duty cycle is always in the documented range, and every
\* 206 DUTY CYCLE printed carries the stored value.
C17_DutyInRange ==
    /\ laser_duty_cycle \in DutyRange
    /\ \A i \in 1..Len(out) :
          out[i].code = 206 => out[i].args = <<laser_duty_cycle>>

\* C18: when a command is dispatched, the command dispatched before it has
\* printed at least one status line (at its dispatch or at the end of its
\* hold), on both builds.
C18_EveryCommandAnswered ==
    (Dispatched /\ ev.disp[1].prev.n = 1) => ev.disp[1].prev.out # <<>>

\* a focus-rotate request has just been accepted
Accepted ==
    /\ Dispatched /\ Op = "p"
    /\ Len(out) = 1 /\ out[1].code = 204

\* the poll just taken observed the completion: stepper_run is false and
\* exactly one 201 FOCUS DONE with the tracked position has been printed
Completed ==
    /\ ev.kind = "poll"
    /\ ~stepper_run
    /\ out = <<St(201, "FOCUS DONE, pos =", <<stepper_pos>>)>>

\* an emergency stop has just been dispatched
Aborted == Dispatched /\ Op = "e"

\* C19: with the loop iterating for ever, every accepted focus-rotate request
\* is followed by an emergency stop or by a poll that sets stepper_run false
\* and prints exactly one 201 FOCUS DONE with the tracked position; a poll
\* prints only that, and only when it ends a rotation that was in flight
\* (stepper_run true, primitive not done), so never while idle and never
\* after an emergency stop has ended the rotation.
C19_MotionCompletion ==
    /\ Accepted ~> (Completed \/ Aborted)
    /\ [][(ev'.kind = "poll" /\ out' # <<>>)
             => /\ stepper_run /\ ~stepper.done
                /\ ~stepper_run' /\ stepper'.done
                /\ out' = <<St(201, "FOCUS DONE, pos =", <<stepper_pos'>>)>>]_vars
    /\ []((ev.kind = "poll" /\ out # <<>>) => (last.cmd # <<>> /\ last.cmd[1] # "e"))

C19_Witness ==
    /\ Completed
    /\ stepper_pos # 0
    /\ last.cmd # <<>> /\ last.cmd[1] = "p"

\* C20: at every iteration boundary stepper_run is true exactly when the
\* primitive has an unfinished rotation.
C20_RunFlagAgrees ==
    pc = "read" => (stepper_run <=> ~stepper.done)

\* an iteration boundary with a rotation in flight that was requested while
\* another was in flight
C20_Witness ==
    /\ pc = "read"
    /\ stepper_run /\ ~stepper.done
    /\ moves = MaxMoves
    /\ ev.kind = "poll"
    /\ last.cmd # <<>> /\ last.cmd[1] = "p" /\ ~last.completed

====
